---- MODULE Spec2Model ----
(***************************************************************************)
(* A model of PowerFlowSolver (src/power_flow_solver.py): bus              *)
(* classification, power injection estimates, the four Jacobian            *)
(* submatrices, the linear correction solve, the voltage update and the    *)
(* convergence query.                                                      *)
(*                                                                         *)
(* Arithmetic is exact and on a grid.  A bus voltage is kept in polar form *)
(* [vm, va]: vm is numpy.abs(voltage) in per-unit steps, va is             *)
(* numpy.angle(voltage) in quarter turns, normalised to -1..2 (the range   *)
(* (-pi, pi] of numpy.angle).  Cos and Sin are the exact values of the     *)
(* trigonometric functions at quarter turns.  Powers and admittances are   *)
(* integers, so every Jacobian entry is an integer (p_k / v_k is exact,    *)
(* p_k being a multiple of v_k).  Floating-point rounding is not modelled. *)
(*                                                                         *)
(* PowerFlowSpec models the loop of PowerFlow.execute (src/power_flow.py): *)
(* the power errors, the convergence test and the voltage update.          *)
(***************************************************************************)
EXTENDS Integers, Sequences, FiniteSets, TLC

\* ---------------------------------------------------------------- bounds
\* buses in the snapshot: a swing bus and two others, so that a generation
\* bus and a load bus occur together
NumBuses == 3
\* voltage magnitudes stay in 1..MaxMagnitude (a zero magnitude divides by
\* zero in J12 and J22)
MaxMagnitude == 3
\* a step is followed when every correction is an integer of at most this size
MaxCorrection == 2
\* largest entry followed through the elimination of the linear solve
MaxEntry == 30000
\* iterations of PowerFlow.execute() that are followed
MaxIterations == 1

BusIndex == 1..NumBuses

\* ------------------------------------------------------ input value sets
\* the buses a snapshot is made of: <<active_power_generated,
\* active_power_consumed, reactive_power_consumed, |voltage|, angle(voltage)>>
BusData == {<<0, 0, 0, 1, 0>>, <<1, 0, -1, 1, 0>>, <<0, 1, 0, 1, 0>>,
            <<0, 0, -1, 1, 0>>, <<0, 1, -1, 1, -1>>}
\* <<g, b>> of the series admittance of the line between consecutive buses
LineAdmittances == {<<0, -1>>, <<1, -1>>}
\* <<max_active_power_error, max_reactive_power_error>>
Thresholds == {<<1, 0>>, <<0, 1>>}
SwingNumbers == {1, 2}

VARIABLES
    buses,                      \* self._system.buses
    admittance_matrix,          \* self._admittance_matrix
    swing_bus_number,           \* self._swing_bus_number
    max_active_power_error,     \* self._max_active_power_error
    max_reactive_power_error,   \* self._max_reactive_power_error
    estimates,                  \* self._estimates
    pv_pq_estimates,            \* self._pv_pq_estimates (values, in dict order)
    pq_estimates,               \* self._pq_estimates (values, in dict order)
    jacobian,                   \* the Jacobian assembled by the last step()
    corrections,                \* the corrections computed by the last step()
    outcome,                    \* how the last call ended
    stepped,                    \* whether step() has been called
    constructed_buses,          \* the buses as they were at construction
    power_flow                  \* a PowerFlow object (src/power_flow.py) and
                                \* the locals of its execute()

vars == <<buses, admittance_matrix, swing_bus_number, max_active_power_error,
          max_reactive_power_error, estimates, pv_pq_estimates, pq_estimates,
          jacobian, corrections, outcome, stepped, constructed_buses, power_flow>>

\* ------------------------------------------------------------ arithmetic
Abs(x) == IF x < 0 THEN -x ELSE x

\* cos and sin of an angle given in quarter turns
Cos(a) == CASE a % 4 = 0 -> 1 [] a % 4 = 1 -> 0 [] a % 4 = 2 -> -1 [] OTHER -> 0
Sin(a) == CASE a % 4 = 0 -> 0 [] a % 4 = 1 -> 1 [] a % 4 = 2 -> 0 [] OTHER -> -1

\* numpy.angle: the angle normalised to (-pi, pi], here -1..2
WrapAngle(a) == ((a + 1) % 4) - 1

\* magnitude * numpy.exp(1j * angle), read back through numpy.abs/numpy.angle
Polar(magnitude, angle) ==
    IF magnitude = 0 THEN [vm |-> 0, va |-> 0]
    ELSE IF magnitude < 0 THEN [vm |-> -magnitude, va |-> WrapAngle(angle + 2)]
    ELSE [vm |-> magnitude, va |-> WrapAngle(angle)]

\* a list and a two-dimensional array, as values (evaluated once)
Row(s) == s \o <<>>
Matrix(m) == [r \in 1..Len(m) |-> m[r] \o <<>>] \o <<>>

RECURSIVE SumSeq(_)
SumSeq(s) == IF s = <<>> THEN 0 ELSE Head(s) + SumSeq(Tail(s))

RECURSIVE MaxSeq(_)
MaxSeq(s) == IF Len(s) = 1 THEN s[1]
             ELSE LET m == MaxSeq(Tail(s)) IN IF s[1] >= m THEN s[1] ELSE m

\* --------------------------------------------------------------- BusType
UNKNOWN == "UNKNOWN"
SWING == "SWING"
PV == "PV"
PQ == "PQ"

\* _bus_type with the consumption test ahead of the generation test
bus_type_load_first(bus, swing) ==
    IF bus.number = swing THEN SWING
    ELSE IF bus.active_power_consumed # 0 \/ bus.reactive_power_consumed # 0 THEN PQ
    ELSE IF bus.active_power_generated # 0 THEN PV
    ELSE UNKNOWN

\* PowerFlowSolver._bus_type
bus_type(bus, swing) ==
    IF bus.number = swing THEN SWING
    ELSE IF bus.active_power_generated # 0 THEN PV
    ELSE IF bus.active_power_consumed # 0 \/ bus.reactive_power_consumed # 0 THEN PQ
    ELSE UNKNOWN

\* ------------------------------------------------------------- estimates
\* index of the bus with a given number ([index for ... if bus.number == n][0])
IndexOf(bs, n) == CHOOSE i \in 1..Len(bs) :
    bs[i].number = n /\ \A j \in 1..(i - 1) : bs[j].number # n

\* one _BusEstimate, for the bus at position k
BusEstimate(bs, Y, swing, k) ==
    LET src == bs[k]
        p == SumSeq([i \in 1..Len(bs) |->
                 src.vm * bs[i].vm * (Y[k][i].g * Cos(src.va - bs[i].va)
                                      + Y[k][i].b * Sin(src.va - bs[i].va))])
        q == SumSeq([i \in 1..Len(bs) |->
                 src.vm * bs[i].vm * (Y[k][i].g * Sin(src.va - bs[i].va)
                                      - Y[k][i].b * Cos(src.va - bs[i].va))])
    IN [bus |-> k,
        bus_type |-> bus_type(src, swing),
        active_power |-> p,
        reactive_power |-> q,
        active_power_error |-> src.active_power_generated - src.active_power_consumed - p,
        reactive_power_error |-> -src.reactive_power_consumed - q]

\* PowerFlowSolver._bus_power_estimates: bus number -> estimate
bus_power_estimates(bs, Y, swing) ==
    [n \in {bs[i].number : i \in 1..Len(bs)} |-> BusEstimate(bs, Y, swing, IndexOf(bs, n))]

\* estimates.values(), in insertion order (bus numbers are unique)
EstimateValues(est, bs) == Row([i \in 1..Len(bs) |-> est[bs[i].number]])

\* the non-swing filter written against the wrong type
IsNotUnknown(e) == e.bus_type # UNKNOWN
\* i.bus_type != BusType.SWING
IsNotSwing(e) == e.bus_type # SWING

\* the load filter letting generation buses through
IsPQOrPV(e) == e.bus_type \in {PQ, PV}
\* i.bus_type == BusType.PQ
IsPQ(e) == e.bus_type = PQ

\* PowerFlowSolver._compute_estimates
compute_estimates(bs, Y, swing) ==
    LET est == bus_power_estimates(bs, Y, swing)
    IN [estimates |-> est,
        pv_pq_estimates |-> SelectSeq(EstimateValues(est, bs), IsNotSwing),
        pq_estimates |-> SelectSeq(EstimateValues(est, bs), IsPQ)]

\* -------------------------------------------------------------- Jacobian
\* PowerFlowSolver._jacobian_11 (dP/dtheta), rows and columns over pv_pq
jacobian_11(bs, Y, pvpq) ==
    Matrix([row \in 1..Len(pvpq) |-> [col \in 1..Len(pvpq) |->
        LET src == pvpq[row]
            dst == pvpq[col]
            k == IndexOf(bs, bs[src.bus].number)
            j == IndexOf(bs, bs[dst.bus].number)
            v_k == bs[src.bus].vm
            v_j == bs[dst.bus].vm
            theta_kj == bs[src.bus].va - bs[dst.bus].va
            g_kj == Y[k][j].g
            b_kj == Y[k][j].b
        IN IF k # j THEN v_k * v_j * (g_kj * Sin(theta_kj) - b_kj * Cos(theta_kj))
           ELSE -src.reactive_power - (v_k * v_k) * b_kj]])

\* _jacobian_12 taking the diagonal formula where the row index equals the
\* column index
jacobian_12_by_index(bs, Y, pvpq, pq) ==
    Matrix([row \in 1..Len(pvpq) |-> [col \in 1..Len(pq) |->
        LET src == pvpq[row]
            dst == pq[col]
            k == IndexOf(bs, bs[src.bus].number)
            j == IndexOf(bs, bs[dst.bus].number)
            v_k == bs[src.bus].vm
            theta_kj == bs[src.bus].va - bs[dst.bus].va
            g_kj == Y[k][j].g
            b_kj == Y[k][j].b
        IN IF row # col THEN v_k * (g_kj * Cos(theta_kj) + b_kj * Sin(theta_kj))
           ELSE (src.active_power \div v_k) + g_kj * v_k]])

\* PowerFlowSolver._jacobian_12 (dP/dV), rows over pv_pq, columns over pq
jacobian_12(bs, Y, pvpq, pq) ==
    Matrix([row \in 1..Len(pvpq) |-> [col \in 1..Len(pq) |->
        LET src == pvpq[row]
            dst == pq[col]
            k == IndexOf(bs, bs[src.bus].number)
            j == IndexOf(bs, bs[dst.bus].number)
            v_k == bs[src.bus].vm
            theta_kj == bs[src.bus].va - bs[dst.bus].va
            g_kj == Y[k][j].g
            b_kj == Y[k][j].b
        IN IF k # j THEN v_k * (g_kj * Cos(theta_kj) + b_kj * Sin(theta_kj))
           ELSE (src.active_power \div v_k) + g_kj * v_k]])

\* PowerFlowSolver._jacobian_21 (dQ/dtheta), rows over pq, columns over pv_pq
jacobian_21(bs, Y, pvpq, pq) ==
    Matrix([row \in 1..Len(pq) |-> [col \in 1..Len(pvpq) |->
        LET src == pq[row]
            dst == pvpq[col]
            k == IndexOf(bs, bs[src.bus].number)
            j == IndexOf(bs, bs[dst.bus].number)
            v_k == bs[src.bus].vm
            v_j == bs[dst.bus].vm
            theta_kj == bs[src.bus].va - bs[dst.bus].va
            g_kj == Y[k][j].g
            b_kj == Y[k][j].b
        IN IF k # j THEN -v_k * v_j * (g_kj * Cos(theta_kj) + b_kj * Sin(theta_kj))
           ELSE src.active_power - g_kj * v_k * v_k]])

\* PowerFlowSolver._jacobian_22 (dQ/dV), rows and columns over pq
jacobian_22(bs, Y, pq) ==
    Matrix([row \in 1..Len(pq) |-> [col \in 1..Len(pq) |->
        LET src == pq[row]
            dst == pq[col]
            k == IndexOf(bs, bs[src.bus].number)
            j == IndexOf(bs, bs[dst.bus].number)
            v_k == bs[src.bus].vm
            theta_kj == bs[src.bus].va - bs[dst.bus].va
            g_kj == Y[k][j].g
            b_kj == Y[k][j].b
        IN IF k # j THEN v_k * (g_kj * Sin(theta_kj) - b_kj * Cos(theta_kj))
           ELSE (src.reactive_power \div v_k) - b_kj * v_k]])

\* numpy.concatenate([a, b], axis=1)
ConcatColumns(a, b) == Row([r \in 1..Len(a) |-> a[r] \o b[r]])

\* _jacobian without the blocks of the load subset
Jacobian_11_only(bs, Y, pvpq, pq) == jacobian_11(bs, Y, pvpq)

\* PowerFlowSolver._jacobian: [[J11, J12], [J21, J22]]
Jacobian(bs, Y, pvpq, pq) ==
    ConcatColumns(jacobian_11(bs, Y, pvpq), jacobian_12(bs, Y, pvpq, pq))
    \o ConcatColumns(jacobian_21(bs, Y, pvpq, pq), jacobian_22(bs, Y, pq))

\* ---------------------------------------------------------- linear solve
\* a / b for b # 0
Quotient(a, b) == IF b < 0 THEN (-a) \div (-b) ELSE a \div b

\* Gaussian elimination with row pivoting on the augmented matrix [J | errors]
\* (numpy.linalg.inv factorises with LAPACK gesv), kept in integers: after
\* step k every entry below and right of the pivot is divided exactly by the
\* previous pivot.  A column without a pivot makes the matrix singular.  The
\* elimination is followed only while every entry stays within MaxEntry.
RECURSIVE Eliminate(_, _, _)
Eliminate(m, k, previous) ==
    LET n == Len(m)
        pivots == {r \in k..n : m[r][k] # 0}
    IN IF \E i \in 1..n : \E j \in 1..(n + 1) : Abs(m[i][j]) > MaxEntry
       THEN [singular |-> FALSE, in_range |-> FALSE, m |-> m]
       ELSE IF k > n THEN [singular |-> FALSE, in_range |-> TRUE, m |-> m]
       ELSE IF pivots = {} THEN [singular |-> TRUE, in_range |-> TRUE, m |-> m]
       ELSE LET p == CHOOSE r \in pivots : \A r2 \in pivots : r <= r2
                s == [m EXCEPT ![k] = m[p], ![p] = m[k]]
                reduced == Matrix([i \in 1..n |-> [j \in 1..(n + 1) |->
                    IF i > k /\ j > k
                    THEN Quotient(s[i][j] * s[k][k] - s[i][k] * s[k][j], previous)
                    ELSE IF i > k THEN 0 ELSE s[i][j]]])
            IN Eliminate(reduced, k + 1, s[k][k])

\* back substitution in the triangular system u, from row i upwards; the
\* solution is on the grid when every division leaves no remainder and no
\* entry exceeds MaxCorrection
RECURSIVE BackSubstitute(_, _, _)
BackSubstitute(u, i, x) ==
    IF i = 0 THEN [on_grid |-> TRUE, x |-> x]
    ELSE LET n == Len(u)
             rest == SumSeq([j \in 1..n |-> IF j > i THEN u[i][j] * x[j] ELSE 0])
             numerator == u[i][n + 1] - rest
         IN IF \/ numerator % Abs(u[i][i]) # 0
               \/ Abs(Quotient(numerator, u[i][i])) > MaxCorrection
            THEN [on_grid |-> FALSE, x |-> x]
            ELSE BackSubstitute(u, i - 1,
                                [x EXCEPT ![i] = Quotient(numerator, u[i][i])])

\* _compute_corrections returning -inv(jacobian) * errors
compute_corrections_negated(J, pvpq, pq) ==
    LET p_errors == Row([i \in 1..Len(pvpq) |-> -pvpq[i].active_power_error])
        q_errors == Row([i \in 1..Len(pq) |-> -pq[i].reactive_power_error])
        errors == p_errors \o q_errors
        augmented == Row([i \in 1..Len(J) |-> Append(J[i], errors[i])])
        lu == Eliminate(augmented, 1, 1)
        solved == BackSubstitute(lu.m, Len(J), Row([i \in 1..Len(J) |-> 0]))
    IN IF ~lu.in_range THEN [raised |-> FALSE, on_grid |-> FALSE, x |-> <<>>]
       ELSE IF lu.singular THEN [raised |-> TRUE, on_grid |-> TRUE, x |-> <<>>]
       ELSE [raised |-> FALSE, on_grid |-> solved.on_grid, x |-> solved.x]

\* PowerFlowSolver._compute_corrections: inv(jacobian) * errors.
\* numpy.linalg.inv raises LinAlgError on a singular matrix.
compute_corrections(J, pvpq, pq) ==
    LET p_errors == Row([i \in 1..Len(pvpq) |-> pvpq[i].active_power_error])
        q_errors == Row([i \in 1..Len(pq) |-> pq[i].reactive_power_error])
        errors == p_errors \o q_errors
        augmented == Row([i \in 1..Len(J) |-> Append(J[i], errors[i])])
        lu == Eliminate(augmented, 1, 1)
        solved == BackSubstitute(lu.m, Len(J), Row([i \in 1..Len(J) |-> 0]))
    IN IF ~lu.in_range THEN [raised |-> FALSE, on_grid |-> FALSE, x |-> <<>>]
       ELSE IF lu.singular THEN [raised |-> TRUE, on_grid |-> TRUE, x |-> <<>>]
       ELSE [raised |-> FALSE, on_grid |-> solved.on_grid, x |-> solved.x]

\* ---------------------------------------------------------- state update
Min(a, b) == IF a <= b THEN a ELSE b

\* the angle loop assigning the correction instead of adding it
RECURSIVE apply_angle_corrections_assign(_, _, _)
apply_angle_corrections_assign(bs, cs, es) ==
    IF cs = <<>> \/ es = <<>> THEN bs
    ELSE LET i == Head(es).bus
             v == Polar(bs[i].vm, Head(cs))
         IN apply_angle_corrections_assign([bs EXCEPT ![i].vm = v.vm, ![i].va = v.va],
                                           Tail(cs), Tail(es))

\* for c, e in zip(angle_corrections, pv_pq.values()): add c to the angle
RECURSIVE apply_angle_corrections(_, _, _)
apply_angle_corrections(bs, cs, es) ==
    IF cs = <<>> \/ es = <<>> THEN bs
    ELSE LET i == Head(es).bus
             v == Polar(bs[i].vm, bs[i].va + Head(cs))
         IN apply_angle_corrections([bs EXCEPT ![i].vm = v.vm, ![i].va = v.va],
                                    Tail(cs), Tail(es))

\* for c, e in zip(magnitude_corrections, pq.values()): add c to the magnitude
RECURSIVE apply_magnitude_corrections(_, _, _)
apply_magnitude_corrections(bs, cs, es) ==
    IF cs = <<>> \/ es = <<>> THEN bs
    ELSE LET i == Head(es).bus
             v == Polar(bs[i].vm + Head(cs), bs[i].va)
         IN apply_magnitude_corrections([bs EXCEPT ![i].vm = v.vm, ![i].va = v.va],
                                        Tail(cs), Tail(es))

\* _apply_corrections pairing the magnitude corrections with the non-swing
\* subset instead of the load subset
apply_corrections_by_non_swing(bs, cs, pvpq, pq) ==
    LET n == Min(Len(pvpq), Len(cs))
        angle_corrections == SubSeq(cs, 1, n)
        magnitude_corrections == SubSeq(cs, n + 1, Len(cs))
    IN apply_magnitude_corrections(
           apply_angle_corrections(bs, angle_corrections, pvpq),
           magnitude_corrections, pvpq)

\* PowerFlowSolver._apply_corrections
apply_corrections(bs, cs, pvpq, pq) ==
    LET n == Min(Len(pvpq), Len(cs))
        angle_corrections == SubSeq(cs, 1, n)
        magnitude_corrections == SubSeq(cs, n + 1, Len(cs))
    IN apply_magnitude_corrections(
           apply_angle_corrections(bs, angle_corrections, pvpq),
           magnitude_corrections, pq)

\* ------------------------------------------------------------ operations
\* has_converged without numpy.abs
has_converged_signed(pvpq, pq, max_p, max_q) ==
    IF pvpq = <<>> \/ pq = <<>> THEN "ValueError"
    ELSE LET max_dp == MaxSeq([i \in 1..Len(pvpq) |-> pvpq[i].active_power_error])
             max_dq == MaxSeq([i \in 1..Len(pq) |-> pq[i].reactive_power_error])
         IN IF max_dp <= max_p /\ max_dq <= max_q THEN "True" ELSE "False"

\* PowerFlowSolver.has_converged.  numpy.max of an empty list raises
\* ValueError.
has_converged(pvpq, pq, max_p, max_q) ==
    IF pvpq = <<>> \/ pq = <<>> THEN "ValueError"
    ELSE LET max_dp == MaxSeq([i \in 1..Len(pvpq) |-> Abs(pvpq[i].active_power_error)])
             max_dq == MaxSeq([i \in 1..Len(pq) |-> Abs(pq[i].reactive_power_error)])
         IN IF max_dp <= max_p /\ max_dq <= max_q THEN "True" ELSE "False"

\* step() recomputing the estimates before the corrections are applied
step_stale(bs, Y, swing, est, pvpq, pq) ==
    LET J == Jacobian(bs, Y, pvpq, pq)
        c == compute_corrections(J, pvpq, pq)
        updated == apply_corrections(bs, c.x, pvpq, pq)
        recomputed == compute_estimates(bs, Y, swing)
    IN IF c.raised
       THEN [buses |-> bs, estimates |-> est, pv_pq_estimates |-> pvpq,
             pq_estimates |-> pq, jacobian |-> J, corrections |-> <<>>,
             outcome |-> "LinAlgError", on_grid |-> TRUE]
       ELSE [buses |-> updated, estimates |-> recomputed.estimates,
             pv_pq_estimates |-> recomputed.pv_pq_estimates,
             pq_estimates |-> recomputed.pq_estimates,
             jacobian |-> J, corrections |-> c.x,
             outcome |-> "stepped", on_grid |-> c.on_grid]

\* step() applying the mismatches themselves as corrections when the
\* Jacobian is singular, before it reports the error
step_substitute(bs, Y, swing, est, pvpq, pq) ==
    LET J == Jacobian(bs, Y, pvpq, pq)
        c == compute_corrections(J, pvpq, pq)
        substitute == Row([i \in 1..Len(pvpq) |-> pvpq[i].active_power_error])
                      \o Row([i \in 1..Len(pq) |-> pq[i].reactive_power_error])
        updated == apply_corrections(bs, IF c.raised THEN substitute ELSE c.x, pvpq, pq)
        recomputed == compute_estimates(updated, Y, swing)
    IN [buses |-> updated, estimates |-> recomputed.estimates,
        pv_pq_estimates |-> recomputed.pv_pq_estimates,
        pq_estimates |-> recomputed.pq_estimates,
        jacobian |-> J, corrections |-> IF c.raised THEN <<>> ELSE c.x,
        outcome |-> IF c.raised THEN "LinAlgError" ELSE "stepped",
        on_grid |-> c.on_grid]

\* step() recomputing the estimates between the angle loop and the magnitude
\* loop of _apply_corrections
step_before_magnitudes(bs, Y, swing, est, pvpq, pq) ==
    LET J == Jacobian(bs, Y, pvpq, pq)
        c == compute_corrections(J, pvpq, pq)
        updated == apply_corrections(bs, c.x, pvpq, pq)
        turned == apply_angle_corrections(
                      bs, SubSeq(c.x, 1, Min(Len(pvpq), Len(c.x))), pvpq)
        recomputed == compute_estimates(turned, Y, swing)
    IN IF c.raised
       THEN [buses |-> bs, estimates |-> est, pv_pq_estimates |-> pvpq,
             pq_estimates |-> pq, jacobian |-> J, corrections |-> <<>>,
             outcome |-> "LinAlgError", on_grid |-> TRUE]
       ELSE [buses |-> updated, estimates |-> recomputed.estimates,
             pv_pq_estimates |-> recomputed.pv_pq_estimates,
             pq_estimates |-> recomputed.pq_estimates,
             jacobian |-> J, corrections |-> c.x,
             outcome |-> "stepped", on_grid |-> c.on_grid]

\* PowerFlowSolver.step: the state the call leaves behind
step(bs, Y, swing, est, pvpq, pq) ==
    LET J == Jacobian(bs, Y, pvpq, pq)
        c == compute_corrections(J, pvpq, pq)
        updated == apply_corrections(bs, c.x, pvpq, pq)
        recomputed == compute_estimates(updated, Y, swing)
    IN IF c.raised
       THEN [buses |-> bs, estimates |-> est, pv_pq_estimates |-> pvpq,
             pq_estimates |-> pq, jacobian |-> J, corrections |-> <<>>,
             outcome |-> "LinAlgError", on_grid |-> TRUE]
       ELSE [buses |-> updated, estimates |-> recomputed.estimates,
             pv_pq_estimates |-> recomputed.pv_pq_estimates,
             pq_estimates |-> recomputed.pq_estimates,
             jacobian |-> J, corrections |-> c.x,
             outcome |-> "stepped", on_grid |-> c.on_grid]

\* ---------------------------------------------------------------- inputs
\* system.admittance_matrix() for lines between consecutive buses:
\* off-diagonal entries are the negated series admittance, diagonal entries
\* the sum of the incident series admittances
AdmittanceMatrix(lines) ==
    [i \in BusIndex |-> [j \in BusIndex |->
        LET y(a) == IF a \in 1..(NumBuses - 1) THEN lines[a] ELSE <<0, 0>>
        IN IF j = i + 1 THEN [g |-> -y(i)[1], b |-> -y(i)[2]]
           ELSE IF i = j + 1 THEN [g |-> -y(j)[1], b |-> -y(j)[2]]
           ELSE IF i = j THEN [g |-> y(i - 1)[1] + y(i)[1], b |-> y(i - 1)[2] + y(i)[2]]
           ELSE [g |-> 0, b |-> 0]]]

\* power_system.Bus
Bus(n, data) ==
    [number |-> n, vm |-> data[4], va |-> data[5],
     active_power_generated |-> data[1],
     active_power_consumed |-> data[2],
     reactive_power_consumed |-> data[3]]

\* the voltages stay on the grid
OnGrid(bs) == \A i \in 1..Len(bs) : bs[i].vm \in 1..MaxMagnitude

\* PowerFlowSolver.__init__
Init ==
    \E lines \in [1..(NumBuses - 1) -> LineAdmittances],
       data \in [BusIndex -> BusData],
       swing \in SwingNumbers,
       thresholds \in Thresholds :
        LET bs == [i \in BusIndex |-> Bus(i, data[i])]
            Y == AdmittanceMatrix(lines)
            computed == compute_estimates(bs, Y, swing)
        IN /\ buses = bs
           /\ constructed_buses = bs
           /\ admittance_matrix = Y
           /\ swing_bus_number = swing
           /\ max_active_power_error = thresholds[1]
           /\ max_reactive_power_error = thresholds[2]
           /\ estimates = computed.estimates
           /\ pv_pq_estimates = computed.pv_pq_estimates
           /\ pq_estimates = computed.pq_estimates
           /\ jacobian = <<>>
           /\ corrections = <<>>
           /\ outcome = "constructed"
           /\ stepped = FALSE
           /\ power_flow = <<>>

\* solver.step()
Step ==
    LET r == step(buses, admittance_matrix, swing_bus_number, estimates,
                  pv_pq_estimates, pq_estimates)
    IN /\ r.on_grid
       /\ OnGrid(r.buses)
       /\ buses' = r.buses
       /\ estimates' = r.estimates
       /\ pv_pq_estimates' = r.pv_pq_estimates
       /\ pq_estimates' = r.pq_estimates
       /\ jacobian' = r.jacobian
       /\ corrections' = r.corrections
       /\ outcome' = r.outcome
       /\ stepped' = TRUE
       /\ UNCHANGED <<admittance_matrix, swing_bus_number, max_active_power_error,
                      max_reactive_power_error, constructed_buses, power_flow>>

\* solver.has_converged()
HasConverged ==
    /\ outcome' = has_converged(pv_pq_estimates, pq_estimates,
                                max_active_power_error, max_reactive_power_error)
    /\ UNCHANGED <<buses, admittance_matrix, swing_bus_number, max_active_power_error,
                   max_reactive_power_error, estimates, pv_pq_estimates, pq_estimates,
                   jacobian, corrections, stepped, constructed_buses, power_flow>>

Next == Step \/ HasConverged

Spec == Init /\ [][Next]_vars

\* ------------------------------------------- PowerFlow (src/power_flow.py)
\* <<max_active_power_mismatch_pu, max_reactive_power_mismatch_pu>>
Mismatches == {<<1, 1>>, <<2, 1>>}
\* corrections a Newton-Raphson iteration of execute() may produce
PowerFlowCorrections == -1..1

\* PowerFlow.read_bus_data with power_base_mva = 1: the buses sorted by
\* number, power = p_gen - (p_load + j q_load), the voltage real, and the
\* system power balanced in the slack bus
read_bus_data(data, slack) ==
    LET s(i) == [re |-> data[i][1] - data[i][2], im |-> -data[i][3]]
        s_total == [re |-> SumSeq([i \in BusIndex |-> s(i).re]),
                    im |-> SumSeq([i \in BusIndex |-> s(i).im])]
    IN Row([i \in BusIndex |->
           [number |-> i,
            power |-> IF i = slack THEN [re |-> -s_total.re, im |-> -s_total.im]
                      ELSE s(i),
            vm |-> Polar(data[i][4], 0).vm,
            va |-> Polar(data[i][4], 0).va]])

\* PowerFlow.create_power_flow_equations: the calculated power of each bus,
\* from the susceptances alone
create_power_flow_equations(bs, admittances) ==
    Row([n \in 1..Len(bs) |->
        LET src == bs[n]
            k == src.number
        IN [re |-> SumSeq([i \in 1..Len(bs) |->
                       src.vm * bs[i].vm * admittances[k][bs[i].number].b
                       * Sin(src.va - bs[i].va)]),
            im |-> SumSeq([i \in 1..Len(bs) |->
                       -src.vm * bs[i].vm * admittances[k][bs[i].number].b
                       * Cos(src.va - bs[i].va)])]])

\* PowerFlow.read_admittance_matrix for lines given by their series admittance
\* 1 / (rtotal + j xtotal), with btotal = 0
read_admittance_matrix(lines) == AdmittanceMatrix(lines)

\* s_error of execute(): calculated minus actual power of the non-slack buses
PowerErrors(bs, admittances, slack) ==
    LET s_calc == create_power_flow_equations(bs, admittances)
        all == Row([i \in 1..Len(bs) |->
                   [number |-> bs[i].number,
                    re |-> s_calc[i].re - bs[i].power.re,
                    im |-> s_calc[i].im - bs[i].power.im]])
        NotSlack(e) == e.number # slack
    IN SelectSeq(all, NotSlack)

\* PowerFlow.is_convergent
is_convergent(errors, max_p, max_q) ==
    \A i \in 1..Len(errors) : ~(errors[i].re >= max_p \/ errors[i].im >= max_q)

\* PowerFlow.apply_corrections: angles in the first half, magnitudes in the
\* second, one of each for every bus but the slack bus, in bus order
PowerFlowApplyCorrections(bs, cs, slack) ==
    LET half == Len(cs) \div 2
        count(i) == Cardinality({j \in 1..(i - 1) : bs[j].number # slack})
    IN Row([i \in 1..Len(bs) |->
           IF bs[i].number = slack THEN bs[i]
           ELSE LET v == Polar(bs[i].vm + cs[half + count(i) + 1],
                               bs[i].va + cs[count(i) + 1])
                IN [bs[i] EXCEPT !.vm = v.vm, !.va = v.va]])

\* the solver object does not exist while a PowerFlow runs
NoSolver ==
    /\ buses = <<>> /\ constructed_buses = <<>> /\ admittance_matrix = <<>>
    /\ swing_bus_number = 0
    /\ max_active_power_error = 0 /\ max_reactive_power_error = 0
    /\ estimates = <<>> /\ pv_pq_estimates = <<>> /\ pq_estimates = <<>>
    /\ jacobian = <<>> /\ corrections = <<>>
    /\ outcome = "absent" /\ stepped = FALSE

SolverVars == <<buses, admittance_matrix, swing_bus_number, max_active_power_error,
                max_reactive_power_error, estimates, pv_pq_estimates, pq_estimates,
                jacobian, corrections, outcome, stepped, constructed_buses>>

\* PowerFlow.__init__ and the head of execute(): the data are read
PowerFlowInit ==
    /\ NoSolver
    /\ \E lines \in [1..(NumBuses - 1) -> LineAdmittances],
          data \in [BusIndex -> BusData],
          slack \in SwingNumbers,
          mismatches \in Mismatches :
           power_flow = [slack_bus_number |-> slack,
                         max_active_power_mismatch_pu |-> mismatches[1],
                         max_reactive_power_mismatch_pu |-> mismatches[2],
                         buses |-> read_bus_data(data, slack),
                         admittances |-> read_admittance_matrix(lines),
                         s_error |-> <<>>,
                         iterations |-> 0,
                         at |-> "while"]

\* execute(), lines 88-91: the errors are computed and tested; the loop is
\* left when is_convergent answers true
ExecuteTest ==
    /\ power_flow.at = "while"
    /\ LET s_error == PowerErrors(power_flow.buses, power_flow.admittances,
                                  power_flow.slack_bus_number)
       IN power_flow' = [power_flow EXCEPT
              !.s_error = s_error,
              !.at = IF is_convergent(s_error, power_flow.max_active_power_mismatch_pu,
                                      power_flow.max_reactive_power_mismatch_pu)
                     THEN "returned" ELSE "correct"]
    /\ UNCHANGED SolverVars

\* execute(), lines 94-102: the corrections of one iteration are applied.
\* The Jacobian comes from power_flow_jacobian, which is not part of the
\* sources, so the corrections are any values of the grid.
ExecuteCorrect ==
    /\ power_flow.at = "correct"
    /\ power_flow.iterations < MaxIterations
    /\ \E cs \in [1..(2 * Len(power_flow.s_error)) -> PowerFlowCorrections] :
           LET updated == PowerFlowApplyCorrections(power_flow.buses, cs,
                                                    power_flow.slack_bus_number)
           IN /\ OnGrid(updated)
              /\ power_flow' = [power_flow EXCEPT !.buses = updated, !.at = "while",
                                  !.iterations = power_flow.iterations + 1]
    /\ UNCHANGED SolverVars

PowerFlowNext == ExecuteTest \/ ExecuteCorrect

PowerFlowSpec == PowerFlowInit /\ [][PowerFlowNext]_vars

\* ------------------------------------------------------- shared notions
\* the estimate stored for the bus at position i
EstimateOf(i) == estimates[buses[i].number]

\* positions of the buses in a list of estimates
BusesOf(es) == {es[i].bus : i \in 1..Len(es)}

\* buses whose number is not the swing bus number; buses that declare no
\* generation but some consumption (load buses); buses that declare nothing
NonSwingBuses == {i \in 1..Len(buses) : buses[i].number # swing_bus_number}
LoadBuses == {i \in NonSwingBuses :
    /\ buses[i].active_power_generated = 0
    /\ buses[i].active_power_consumed # 0 \/ buses[i].reactive_power_consumed # 0}
GenerationBuses == {i \in NonSwingBuses : buses[i].active_power_generated # 0}
UnclassifiedBuses == {i \in NonSwingBuses :
    /\ buses[i].active_power_generated = 0
    /\ buses[i].active_power_consumed = 0
    /\ buses[i].reactive_power_consumed = 0}

SameVoltage(a, b) == a.vm = b.vm /\ a.va = b.va

Queried == outcome \in {"True", "False", "ValueError"}

\* ------------------------------------------------------------------- C1
\* C1: has_converged() returns true exactly when the largest |active power
\* error| over the non-swing buses is at most max_active_power_error and the
\* largest |reactive power error| over the load buses is at most
\* max_reactive_power_error (inclusive, absolute values, the swing bus's own
\* mismatches play no part).  A largest value exists only over a non-empty
\* subset.
C1_ConvergedExactly ==
    Queried =>
        (outcome = "True" <=>
            /\ NonSwingBuses # {} /\ LoadBuses # {}
            /\ \A i \in NonSwingBuses :
                   Abs(EstimateOf(i).active_power_error) <= max_active_power_error
            /\ \A i \in LoadBuses :
                   Abs(EstimateOf(i).reactive_power_error) <= max_reactive_power_error)

\* has_converged() answered true although the swing bus's own mismatch is
\* above the threshold, with a negative mismatch exactly at the threshold
C1_Witness ==
    /\ outcome = "True"
    /\ \E i \in 1..Len(buses) :
           /\ buses[i].number = swing_bus_number
           /\ \/ Abs(EstimateOf(i).active_power_error) > max_active_power_error
              \/ Abs(EstimateOf(i).reactive_power_error) > max_reactive_power_error
    /\ \E i \in NonSwingBuses :
           /\ EstimateOf(i).active_power_error < 0
           /\ Abs(EstimateOf(i).active_power_error) = max_active_power_error

\* ------------------------------------------------------------------- C2
\* C2: whatever the mix of bus types, if every non-swing mismatch computed at
\* construction is within its threshold, has_converged() called right after
\* construction (no step()) returns true.
C2_ConvergedAtConstruction ==
    (/\ Queried
     /\ ~stepped
     /\ \A i \in NonSwingBuses :
            /\ Abs(EstimateOf(i).active_power_error) <= max_active_power_error
            /\ Abs(EstimateOf(i).reactive_power_error) <= max_reactive_power_error)
    => outcome = "True"

\* ------------------------------------------------------------------- C3
\* C3: after any sequence of step() calls the voltage of the bus whose number
\* is the swing bus number is its voltage at construction, and that bus is in
\* neither correction subset.
C3_SwingVoltageFixed ==
    \A i \in 1..Len(buses) :
        buses[i].number = swing_bus_number =>
            /\ SameVoltage(buses[i], constructed_buses[i])
            /\ i \notin BusesOf(pv_pq_estimates)
            /\ i \notin BusesOf(pq_estimates)

\* a step has moved every non-swing bus while a swing bus is present
C3_Witness ==
    /\ outcome = "stepped"
    /\ \E i \in 1..Len(buses) : buses[i].number = swing_bus_number
    /\ \A i \in NonSwingBuses : ~SameVoltage(buses[i], constructed_buses[i])

\* ------------------------------------------------------------------- C4
\* C4: an unclassified bus (not the swing bus, nothing generated, nothing
\* consumed) is in neither the non-swing subset nor the load subset, and
\* step() never changes its voltage.
C4_UnclassifiedExcluded ==
    \A i \in UnclassifiedBuses :
        /\ i \notin BusesOf(pv_pq_estimates)
        /\ i \notin BusesOf(pq_estimates)
        /\ SameVoltage(buses[i], constructed_buses[i])

\* ------------------------------------------------------------------- C5
\* C5: a generation (PV) bus is in the non-swing subset and never in the load
\* subset (the Jacobian has one row and one column for it, those of J11), and
\* after any sequence of step() calls its voltage magnitude is its magnitude
\* at construction.
C5_GenerationAngleOnly ==
    \A i \in GenerationBuses :
        /\ EstimateOf(i).bus_type = PV
        /\ i \in BusesOf(pv_pq_estimates)
        /\ i \notin BusesOf(pq_estimates)
        /\ buses[i].vm = constructed_buses[i].vm
        /\ stepped => Len(jacobian) = Len(pv_pq_estimates) + Cardinality(LoadBuses)

\* a step has turned a generation bus and changed the magnitude of a load bus
C5_Witness ==
    /\ outcome = "stepped"
    /\ \E i \in GenerationBuses : buses[i].va # constructed_buses[i].va
    /\ \E i \in LoadBuses : buses[i].vm # constructed_buses[i].vm

\* ------------------------------------------------------------------- C6
\* C6: in every step() the Jacobian is square with dimension |non-swing
\* subset| + |load subset|, and the correction vector returned by
\* _compute_corrections has that many entries.
C6_JacobianDimension ==
    [][LET n == Len(pv_pq_estimates) + Len(pq_estimates)
       IN /\ outcome' \in {"stepped", "LinAlgError"} =>
                 /\ Len(jacobian') = n
                 /\ \A r \in 1..Len(jacobian') : Len(jacobian'[r]) = n
          /\ outcome' = "stepped" => Len(corrections') = n]_vars

\* a step with generation and load buses has produced corrections
C6_Witness ==
    /\ outcome = "stepped"
    /\ Len(pq_estimates) > 0
    /\ Len(pv_pq_estimates) > Len(pq_estimates)
    /\ Len(corrections) = Len(pv_pq_estimates) + Len(pq_estimates)

\* ------------------------------------------------------------------- C7
\* C7: every bus has exactly one type, by first match: SWING when its number
\* is the swing bus number (whatever it declares), else PV when it generates
\* active power (whatever it consumes), else PQ when it consumes active or
\* reactive power, else UNKNOWN; with exactly one bus of the swing bus number,
\* exactly one bus is SWING.
C7_Classification ==
    /\ \A i \in 1..Len(buses) :
        LET t == EstimateOf(i).bus_type
        IN /\ t \in {SWING, PV, PQ, UNKNOWN}
           /\ t = SWING <=> i \notin NonSwingBuses
           /\ t = PV <=> i \in GenerationBuses
           /\ t = PQ <=> i \in LoadBuses
           /\ t = UNKNOWN <=> i \in UnclassifiedBuses
    /\ Cardinality({i \in 1..Len(buses) : buses[i].number = swing_bus_number}) = 1
           => Cardinality({i \in 1..Len(buses) : EstimateOf(i).bus_type = SWING}) = 1

\* a swing bus that declares generation and load, a generation bus that also
\* consumes, and a load bus that consumes reactive power only
C7_Witness ==
    /\ \E i \in 1..Len(buses) :
           /\ EstimateOf(i).bus_type = SWING
           /\ buses[i].active_power_generated # 0
           /\ buses[i].reactive_power_consumed # 0
    /\ \E i \in 1..Len(buses) :
           /\ EstimateOf(i).bus_type = PV
           /\ buses[i].reactive_power_consumed # 0
    /\ \E i \in 1..Len(buses) :
           /\ EstimateOf(i).bus_type = PQ
           /\ buses[i].active_power_consumed = 0

\* ------------------------------------------------------------------- C8
\* C8: after construction and after every completed step() the stored
\* estimates and both subsets are what a recomputation from the current bus
\* voltages and the admittance matrix yields.
C8_EstimatesCurrent ==
    LET fresh == compute_estimates(buses, admittance_matrix, swing_bus_number)
    IN /\ estimates = fresh.estimates
       /\ pv_pq_estimates = fresh.pv_pq_estimates
       /\ pq_estimates = fresh.pq_estimates

\* a step has changed the voltages, and with them the estimates
C8_Witness ==
    /\ outcome = "stepped"
    /\ estimates # compute_estimates(constructed_buses, admittance_matrix,
                                     swing_bus_number).estimates

\* ------------------------------------------------------------------- C9
\* vectors with entries in -1..1 that a matrix maps to zero
NullVectors(m) ==
    {v \in [1..Len(m) -> -1..1] :
        /\ \E i \in 1..Len(m) : v[i] # 0
        /\ \A r \in 1..Len(m) : SumSeq([c \in 1..Len(m) |-> m[r][c] * v[c]]) = 0}

\* C9: a step() whose Jacobian is singular ends with the linear-algebra
\* error: it writes no bus voltage and leaves the stored estimates and
\* subsets as they were; a step() that completes had no singular Jacobian.
C9_SingularStepChangesNothing ==
    [][/\ outcome' = "LinAlgError" =>
              /\ buses' = buses
              /\ estimates' = estimates
              /\ pv_pq_estimates' = pv_pq_estimates
              /\ pq_estimates' = pq_estimates
       /\ outcome' = "stepped" => NullVectors(jacobian') = {}]_vars

\* a step has failed on a singular Jacobian while mismatches were not zero
C9_Witness ==
    /\ outcome = "LinAlgError"
    /\ NullVectors(jacobian) # {}
    /\ \E i \in 1..Len(pv_pq_estimates) : pv_pq_estimates[i].active_power_error # 0

\* ------------------------------------------------------------------ C10
\* C10: applying a correction vector whose entries are all zero leaves the
\* voltage magnitude and angle of every bus unchanged.
C10_ZeroCorrectionsChangeNothing ==
    [][(/\ outcome' = "stepped"
        /\ \A i \in 1..Len(corrections') : corrections'[i] = 0)
       => \A i \in 1..Len(buses) : SameVoltage(buses'[i], buses[i])]_vars

\* a step has applied all-zero angle and magnitude corrections to a load bus
\* whose voltage is away from angle 0
C10_Witness ==
    /\ outcome = "stepped"
    /\ Len(pq_estimates) > 0
    /\ \A i \in 1..Len(corrections) : corrections[i] = 0
    /\ \E i \in BusesOf(pq_estimates) : buses[i].va # 0

\* ------------------------------------------------------------------ C11
\* C11: PowerFlow.is_convergent answers true, and execute() leaves its loop,
\* only when for every non-slack bus the magnitude of the real power error is
\* below max_active_power_mismatch_pu and the magnitude of the reactive power
\* error is below max_reactive_power_mismatch_pu; a large negative error is
\* not accepted.
C11_ConvergentWithinMagnitude ==
    power_flow.at = "returned" =>
        \A i \in 1..Len(power_flow.s_error) :
            /\ Abs(power_flow.s_error[i].re) < power_flow.max_active_power_mismatch_pu
            /\ Abs(power_flow.s_error[i].im) < power_flow.max_reactive_power_mismatch_pu

\* ------------------------------------------------------------------ C12
\* C12: the estimates are computed at construction, before any step(); each
\* completed step() assembles the Jacobian and solves for the corrections
\* from the voltages and estimates it found (no voltage is written before the
\* corrections are known), then writes the voltages, and recomputes the
\* estimates only from the voltages left by all angle and magnitude
\* corrections.
C12_StepPhases ==
    [][/\ ~stepped =>
              /\ buses = constructed_buses
              /\ estimates = bus_power_estimates(constructed_buses, admittance_matrix,
                                                 swing_bus_number)
       /\ outcome' = "stepped" =>
              LET J == Jacobian(buses, admittance_matrix, pv_pq_estimates, pq_estimates)
                  c == compute_corrections(J, pv_pq_estimates, pq_estimates)
                  written == apply_corrections(buses, c.x, pv_pq_estimates, pq_estimates)
                  after == compute_estimates(written, admittance_matrix, swing_bus_number)
              IN /\ jacobian' = J
                 /\ corrections' = c.x
                 /\ buses' = written
                 /\ estimates' = after.estimates
                 /\ pv_pq_estimates' = after.pv_pq_estimates
                 /\ pq_estimates' = after.pq_estimates]_vars

\* a step has applied an angle and a magnitude correction, and the Jacobian
\* it assembled is not the one of the voltages and estimates it left
C12_Witness ==
    /\ outcome = "stepped"
    /\ Len(pq_estimates) > 0
    /\ \E i \in 1..Len(pv_pq_estimates) : corrections[i] # 0
    /\ \E i \in (Len(pv_pq_estimates) + 1)..Len(corrections) : corrections[i] # 0
    /\ jacobian # Jacobian(buses, admittance_matrix, pv_pq_estimates, pq_estimates)

\* ------------------------------------------------------------------ C13
\* the i-th bus of a set of bus positions, in snapshot order, and the place
\* of a bus in that order
NthBus(S, i) == CHOOSE b \in S : Cardinality({x \in S : x < b}) = i - 1
PlaceOf(S, b) == Cardinality({x \in S : x < b}) + 1

\* C13: in one step() both subsets are in snapshot order, and that order is
\* the one of the Jacobian and of the corrections: row and column i of J11
\* belong to the i-th non-swing bus, whose angle receives correction i;
\* row and column i of J22 belong to the i-th load bus, whose magnitude
\* receives correction |non-swing| + i; no bus receives another entry.
C13_SubsetOrder ==
    [][outcome' = "stepped" =>
        LET n == Cardinality(NonSwingBuses)
            m == Cardinality(LoadBuses)
            angle_correction(b) ==
                IF b \in NonSwingBuses THEN corrections'[PlaceOf(NonSwingBuses, b)] ELSE 0
            magnitude_correction(b) ==
                IF b \in LoadBuses THEN corrections'[n + PlaceOf(LoadBuses, b)] ELSE 0
        IN /\ Len(pv_pq_estimates) = n /\ Len(pq_estimates) = m
           /\ Len(corrections') = n + m
           /\ \A i \in 1..n :
                  LET b == NthBus(NonSwingBuses, i)
                  IN /\ pv_pq_estimates[i].bus = b
                     /\ jacobian'[i][i] = -EstimateOf(b).reactive_power
                            - buses[b].vm * buses[b].vm * admittance_matrix[b][b].b
           /\ \A i \in 1..m :
                  LET b == NthBus(LoadBuses, i)
                  IN /\ pq_estimates[i].bus = b
                     /\ jacobian'[n + i][n + i] =
                            (EstimateOf(b).reactive_power \div buses[b].vm)
                            - admittance_matrix[b][b].b * buses[b].vm
           /\ \A b \in 1..Len(buses) :
                  SameVoltage(buses'[b],
                              Polar(buses[b].vm + magnitude_correction(b),
                                    buses[b].va + angle_correction(b)))]_vars

\* a step in which a generation bus stands before a load bus in the snapshot,
\* the two received different angle corrections, and the load bus a
\* magnitude correction
C13_Witness ==
    /\ outcome = "stepped"
    /\ \E g \in GenerationBuses : \E l \in LoadBuses :
           /\ g < l
           /\ corrections[PlaceOf(NonSwingBuses, g)] # corrections[PlaceOf(NonSwingBuses, l)]
           /\ corrections[Cardinality(NonSwingBuses) + PlaceOf(LoadBuses, l)] # 0
           /\ buses[l].vm # constructed_buses[l].vm

\* ------------------------------------------------------------------ C14
\* C14: in the Jacobian a step() assembles, the cell of row bus a and column
\* bus b holds the diagonal formula exactly when a and b are the same bus and
\* the off-diagonal formula otherwise, with the admittance Y[a][b] taken at
\* the snapshot positions of the two buses; in J12 and J21 the diagonal
\* formula of a load bus stands at (its place among the non-swing buses, its
\* place among the load buses), wherever those places are.
C14_DiagonalByBus ==
    [][outcome' \in {"stepped", "LinAlgError"} =>
        LET n == Cardinality(NonSwingBuses)
            angle(b) == PlaceOf(NonSwingBuses, b)
            magnitude(b) == n + PlaceOf(LoadBuses, b)
            v(b) == buses[b].vm
            G(a, b) == admittance_matrix[a][b].g
            B(a, b) == admittance_matrix[a][b].b
            cos(a, b) == Cos(buses[a].va - buses[b].va)
            sin(a, b) == Sin(buses[a].va - buses[b].va)
            P(b) == EstimateOf(b).active_power
            Q(b) == EstimateOf(b).reactive_power
        IN /\ \A a \in NonSwingBuses : \A b \in NonSwingBuses :
                  jacobian'[angle(a)][angle(b)] =
                      IF a = b THEN -Q(a) - v(a) * v(a) * B(a, a)
                      ELSE v(a) * v(b) * (G(a, b) * sin(a, b) - B(a, b) * cos(a, b))
           /\ \A a \in NonSwingBuses : \A b \in LoadBuses :
                  jacobian'[angle(a)][magnitude(b)] =
                      IF a = b THEN (P(a) \div v(a)) + G(a, a) * v(a)
                      ELSE v(a) * (G(a, b) * cos(a, b) + B(a, b) * sin(a, b))
           /\ \A a \in LoadBuses : \A b \in NonSwingBuses :
                  jacobian'[magnitude(a)][angle(b)] =
                      IF a = b THEN P(a) - G(a, a) * v(a) * v(a)
                      ELSE -v(a) * v(b) * (G(a, b) * cos(a, b) + B(a, b) * sin(a, b))
           /\ \A a \in LoadBuses : \A b \in LoadBuses :
                  jacobian'[magnitude(a)][magnitude(b)] =
                      IF a = b THEN (Q(a) \div v(a)) - B(a, a) * v(a)
                      ELSE v(a) * (G(a, b) * sin(a, b) - B(a, b) * cos(a, b))]_vars

\* a Jacobian was assembled for a load bus whose place among the non-swing
\* buses is not its place among the load buses, and the J12 cell of that bus
\* with itself differs from the J12 cell with equal row and column index
C14_Witness ==
    /\ outcome = "stepped"
    /\ \E b \in LoadBuses :
           LET n == Cardinality(NonSwingBuses)
               row == PlaceOf(NonSwingBuses, b)
               col == PlaceOf(LoadBuses, b)
           IN /\ row # col
              /\ jacobian[row][n + col] # jacobian[col][n + col]
              /\ jacobian[n + col][row] # jacobian[n + col][col]

\* ------------------------------------------------------------------ C15
\* C15: the corrections x of a step() satisfy Jacobian * x = [dP of each
\* non-swing bus; dQ of each load bus], both in snapshot order and with no
\* sign flip, where dP = generated - consumed - calculated P and
\* dQ = -(reactive consumed) - calculated Q; x has one entry per row and none
\* for the swing bus.
C15_CorrectionsSolveMismatch ==
    [][outcome' = "stepped" =>
        LET n == Cardinality(NonSwingBuses)
            m == Cardinality(LoadBuses)
            dP(b) == buses[b].active_power_generated - buses[b].active_power_consumed
                     - EstimateOf(b).active_power
            dQ(b) == -buses[b].reactive_power_consumed - EstimateOf(b).reactive_power
            mismatch(r) == IF r <= n THEN dP(NthBus(NonSwingBuses, r))
                           ELSE dQ(NthBus(LoadBuses, r - n))
        IN /\ Len(corrections') = n + m
           /\ Len(jacobian') = n + m
           /\ \A b \in 1..Len(buses) :
                  /\ EstimateOf(b).active_power_error = dP(b)
                  /\ EstimateOf(b).reactive_power_error = dQ(b)
           /\ \A r \in 1..(n + m) :
                  SumSeq([c \in 1..(n + m) |-> jacobian'[r][c] * corrections'[c]])
                      = mismatch(r)]_vars

\* a step with generation and load buses has solved for non-zero angle and
\* magnitude corrections, while the swing bus has a mismatch of its own
C15_Witness ==
    /\ outcome = "stepped"
    /\ Len(pq_estimates) > 0
    /\ Len(pv_pq_estimates) > Len(pq_estimates)
    /\ \E i \in 1..Len(pv_pq_estimates) : corrections[i] # 0
    /\ \E i \in (Len(pv_pq_estimates) + 1)..Len(corrections) : corrections[i] # 0
    /\ \E b \in 1..Len(buses) :
           /\ buses[b].number = swing_bus_number
           /\ EstimateOf(b).active_power_error # 0

====
